---- MODULE Spec2Model ----
(***************************************************************************)
(* Model of the etcdv2 Terraform provider: the role resource               *)
(* (Create / Read / Update / Delete and the permission codec they embed)   *)
(* and the user resource, run against an abstract etcd v2 auth store.      *)
(*                                                                         *)
(* Every remote call of a handler is one step; a handler's position is     *)
(* (op, pc, idx).  `calls` is the list of remote calls the running handler *)
(* has issued so far, `diag` the error diagnostic it has added.            *)
(***************************************************************************)
EXTENDS Integers, Sequences, FiniteSets, TLC

\* ------------------------------------------------------------------------
\* Bounds
\* ------------------------------------------------------------------------
Paths == {"/a", "/x"}

MaxPerms == 2

PermEntry == [path : Paths, read : BOOLEAN, write : BOOLEAN]

\* Paths are the identity key of an entry within one permission list.
DistinctPaths(perms) ==
    \A i, j \in 1..Len(perms) : i # j => perms[i].path # perms[j].path

\* The permission lists a plan may declare: at most MaxPerms entries, with
\* pairwise distinct paths (so never more entries than Paths has elements).
PermLists ==
    {perms \in UNION {[1..n -> PermEntry] : n \in 0..MaxPerms} : DistinctPaths(perms)}

\* ------------------------------------------------------------------------
\* Helpers on sequences
\* ------------------------------------------------------------------------
Range(s) == {s[i] : i \in 1..Len(s)}

Contains(s, x) == \E i \in 1..Len(s) : s[i] = x

RECURSIVE Without(_, _)
Without(s, x) ==
    IF s = <<>> THEN <<>>
    ELSE IF Head(s) = x THEN Without(Tail(s), x)
    ELSE <<Head(s)>> \o Without(Tail(s), x)

IsPrefix(s, t) == Len(s) <= Len(t) /\ \A i \in 1..Len(s) : s[i] = t[i]

\* ------------------------------------------------------------------------
\* Permission classification: the if/else chain that each of the three
\* loops of the role resource carries its own copy of.
\* ------------------------------------------------------------------------
\* variant: the read flag is tested before the read-and-write case
CreatePermType_ReadFirst(perm) ==
    IF perm.read THEN "read"
    ELSE IF perm.read /\ perm.write THEN "readwrite"
    ELSE IF perm.write THEN "write"
    ELSE "skip"

CreatePermType(perm) ==
    IF perm.read /\ perm.write THEN "readwrite"
    ELSE IF perm.read THEN "read"
    ELSE IF perm.write THEN "write"
    ELSE "skip"

\* variant: the read flag is tested before the read-and-write case
UpdateRevokePermType_ReadFirst(perm) ==
    IF perm.read THEN "read"
    ELSE IF perm.read /\ perm.write THEN "readwrite"
    ELSE IF perm.write THEN "write"
    ELSE "skip"

UpdateRevokePermType(perm) ==
    IF perm.read /\ perm.write THEN "readwrite"
    ELSE IF perm.read THEN "read"
    ELSE IF perm.write THEN "write"
    ELSE "skip"

\* variant: the final else falls through to a read grant instead of `continue`
UpdateGrantPermType_NoSkip(perm) ==
    IF perm.read /\ perm.write THEN "readwrite"
    ELSE IF perm.read THEN "read"
    ELSE IF perm.write THEN "write"
    ELSE "read"

\* variant: the read-only and the write-only cases are exchanged
UpdateGrantPermType_Swapped(perm) ==
    IF perm.read /\ perm.write THEN "readwrite"
    ELSE IF perm.read THEN "write"
    ELSE IF perm.write THEN "read"
    ELSE "skip"

UpdateGrantPermType(perm) ==
    IF perm.read /\ perm.write THEN "readwrite"
    ELSE IF perm.read THEN "read"
    ELSE IF perm.write THEN "write"
    ELSE "skip"

\* ------------------------------------------------------------------------
\* The store's role record: two path lists, a path at most once in each.
\* ------------------------------------------------------------------------
NoRole == [exists |-> FALSE, read |-> <<>>, write |-> <<>>]

FreshRole == [exists |-> TRUE, read |-> <<>>, write |-> <<>>]

AddPath(s, p) == IF Contains(s, p) THEN s ELSE Append(s, p)

\* Effect of a successful GrantRoleKV(name, [p], permType) on the store.
StoreGrant(st, p, permType) ==
    [st EXCEPT
       !.read  = IF permType \in {"read", "readwrite"} THEN AddPath(@, p) ELSE @,
       !.write = IF permType \in {"write", "readwrite"} THEN AddPath(@, p) ELSE @]

\* Effect of a successful RevokeRoleKV(name, [p], permType) on the store.
StoreRevoke(st, p, permType) ==
    [st EXCEPT
       !.read  = IF permType \in {"read", "readwrite"} THEN Without(@, p) ELSE @,
       !.write = IF permType \in {"write", "readwrite"} THEN Without(@, p) ELSE @]

\* ------------------------------------------------------------------------
\* Role Read's rebuild of the permission list from the store's two lists.
\* ------------------------------------------------------------------------
RECURSIVE ReadLoop(_)
ReadLoop(readPaths) ==
    IF readPaths = <<>> THEN <<>>
    ELSE <<[path |-> Head(readPaths), read |-> TRUE, write |-> FALSE]>>
         \o ReadLoop(Tail(readPaths))

\* index of the first entry of perms whose key path is p, 0 when none
RECURSIVE FirstIndex(_, _, _)
FirstIndex(perms, p, i) ==
    IF i > Len(perms) THEN 0
    ELSE IF perms[i].path = p THEN i
    ELSE FirstIndex(perms, p, i + 1)

\* variant: the search for an existing entry is missing
MergeWrite_AlwaysAppend(perms, p) ==
    Append(perms, [path |-> p, read |-> FALSE, write |-> TRUE])

MergeWrite(perms, p) ==
    LET i == FirstIndex(perms, p, 1) IN
    IF i # 0 THEN [perms EXCEPT ![i].write = TRUE]
    ELSE Append(perms, [path |-> p, read |-> FALSE, write |-> TRUE])

RECURSIVE WriteLoop(_, _)
WriteLoop(perms, writePaths) ==
    IF writePaths = <<>> THEN perms
    ELSE WriteLoop(MergeWrite(perms, Head(writePaths)), Tail(writePaths))

Decode(readPaths, writePaths) == WriteLoop(ReadLoop(readPaths), writePaths)

\* ------------------------------------------------------------------------
\* State
\* ------------------------------------------------------------------------
VARIABLES
    roleStore,   \* the role as the store holds it
    tfRole,      \* the role as recorded in the local (Terraform) state
    op,          \* handler in progress: "idle", "create", "read", "update", "delete"
    pc,          \* position in the handler
    idx,         \* loop index of the handler's current loop
    plan,        \* the handler's `plan` permissions
    state,       \* the handler's `state` permissions as read at entry
    calls,       \* remote calls issued by the handler in progress
    diag,        \* error diagnostic added by the handler in progress
    entryStore,  \* the role as the store held it when the handler was entered
    userStore,   \* the user as the store holds it
    tfUser,      \* the user as recorded in the local (Terraform) state
    uplan,       \* the user handler's `plan`
    ustate,      \* the user handler's `state` as read at entry
    cancelled    \* the context handed to the role handler in progress is cancelled

roleVars == <<roleStore, tfRole, idx, plan, state, entryStore, cancelled>>

userVars == <<userStore, tfUser, uplan, ustate>>

vars == <<roleStore, tfRole, op, pc, idx, plan, state, calls, diag, entryStore,
          userStore, tfUser, uplan, ustate, cancelled>>

NoState == [present |-> FALSE, perms |-> <<>>]

NoUser == [exists |-> FALSE, password |-> "", roles |-> <<>>]

NoUserState == [present |-> FALSE, username |-> "", password |-> "", roles |-> <<>>]

NoDiag == [err |-> FALSE, summary |-> "", path |-> ""]

Diag(summary, p) == [err |-> TRUE, summary |-> summary, path |-> p]

\* A remote call: the method, the path list and permission type it carries,
\* and its result ("ok", "notfound" or "error").
Call(kind, paths, permType, res) ==
    [kind |-> kind, paths |-> paths, permType |-> permType, res |-> res]

Res(ok) == IF ok THEN "ok" ELSE "error"

Init ==
    /\ roleStore = NoRole
    /\ tfRole = NoState
    /\ op = "idle"
    /\ pc = "idle"
    /\ idx = 0
    /\ plan = <<>>
    /\ state = <<>>
    /\ calls = <<>>
    /\ diag = NoDiag
    /\ entryStore = NoRole
    /\ userStore = NoUser
    /\ tfUser = NoUserState
    /\ uplan = NoUserState
    /\ ustate = NoUserState
    /\ cancelled = FALSE

\* ------------------------------------------------------------------------
\* roleResource.Create
\* ------------------------------------------------------------------------
\* AddRole succeeds only when the store has no role of that name.
AddRoleOutcomes == IF roleStore.exists THEN {FALSE} ELSE BOOLEAN

\* variant: the error AddRole returns is not tested and the grants follow
RoleCreateAddRole_IgnoreError(p, ok) ==
    /\ UNCHANGED userVars
    /\ cancelled' = FALSE
    /\ op = "idle"
    /\ ~tfRole.present
    /\ ok \in AddRoleOutcomes
    /\ op' = "create"
    /\ plan' = p
    /\ state' = <<>>
    /\ calls' = <<Call("AddRole", <<>>, "", Res(ok))>>
    /\ entryStore' = roleStore
    /\ roleStore' = IF ok THEN FreshRole ELSE roleStore
    /\ pc' = "grant"
    /\ idx' = 1
    /\ diag' = NoDiag
    /\ UNCHANGED tfRole

RoleCreateAddRole(p, ok) ==
    /\ UNCHANGED userVars
    /\ cancelled' = FALSE
    /\ op = "idle"
    /\ ~tfRole.present
    /\ ok \in AddRoleOutcomes
    /\ op' = "create"
    /\ plan' = p
    /\ state' = <<>>
    /\ calls' = <<Call("AddRole", <<>>, "", Res(ok))>>
    /\ entryStore' = roleStore
    /\ IF ok
       THEN /\ roleStore' = FreshRole
            /\ pc' = "grant"
            /\ idx' = 1
            /\ diag' = NoDiag
       ELSE /\ roleStore' = roleStore
            /\ pc' = "returned"
            /\ idx' = 0
            /\ diag' = Diag("Error creating role", "")
    /\ UNCHANGED tfRole

\* GrantRoleKV and RevokeRoleKV fail on a role the store does not hold, and
\* may fail for any other reason.
RoleKVOutcomes == IF roleStore.exists THEN BOOLEAN ELSE {FALSE}

\* variant: the plan is walked from its last entry to its first
RoleCreateGrant_Reverse(ok) ==
    /\ UNCHANGED userVars
    /\ UNCHANGED cancelled
    /\ op = "create"
    /\ pc = "grant"
    /\ IF idx > Len(plan)
       THEN /\ ok
            /\ tfRole' = [present |-> TRUE, perms |-> plan]
            /\ pc' = "returned"
            /\ UNCHANGED <<roleStore, idx, calls, diag>>
       ELSE LET perm == plan[Len(plan) + 1 - idx]
                permType == CreatePermType(perm) IN
            IF permType = "skip"
            THEN /\ ok
                 /\ idx' = idx + 1
                 /\ UNCHANGED <<roleStore, tfRole, pc, calls, diag>>
            ELSE /\ ok \in RoleKVOutcomes
                 /\ calls' = Append(calls, Call("Grant", <<perm.path>>, permType, Res(ok)))
                 /\ IF ok
                    THEN /\ roleStore' = StoreGrant(roleStore, perm.path, permType)
                         /\ idx' = idx + 1
                         /\ UNCHANGED <<pc, diag>>
                    ELSE /\ diag' = Diag("Error granting permission to role", perm.path)
                         /\ pc' = "returned"
                         /\ UNCHANGED <<roleStore, idx>>
                 /\ UNCHANGED tfRole
    /\ UNCHANGED <<op, plan, state, entryStore>>

\* variant: the list recorded at the end is rebuilt from the store
RoleCreateGrant_RecordReadBack(ok) ==
    /\ UNCHANGED userVars
    /\ UNCHANGED cancelled
    /\ op = "create"
    /\ pc = "grant"
    /\ IF idx > Len(plan)
       THEN /\ ok
            /\ tfRole' = [present |-> TRUE, perms |-> Decode(roleStore.read, roleStore.write)]
            /\ pc' = "returned"
            /\ UNCHANGED <<roleStore, idx, calls, diag>>
       ELSE LET perm == plan[idx]
                permType == CreatePermType(perm) IN
            IF permType = "skip"
            THEN /\ ok
                 /\ idx' = idx + 1
                 /\ UNCHANGED <<roleStore, tfRole, pc, calls, diag>>
            ELSE /\ ok \in RoleKVOutcomes
                 /\ calls' = Append(calls, Call("Grant", <<perm.path>>, permType, Res(ok)))
                 /\ IF ok
                    THEN /\ roleStore' = StoreGrant(roleStore, perm.path, permType)
                         /\ idx' = idx + 1
                         /\ UNCHANGED <<pc, diag>>
                    ELSE /\ diag' = Diag("Error granting permission to role", perm.path)
                         /\ pc' = "returned"
                         /\ UNCHANGED <<roleStore, idx>>
                 /\ UNCHANGED tfRole
    /\ UNCHANGED <<op, plan, state, entryStore>>

RoleCreateGrant(ok) ==
    /\ UNCHANGED userVars
    /\ UNCHANGED cancelled
    /\ op = "create"
    /\ pc = "grant"
    /\ IF idx > Len(plan)
       THEN \* resp.State.Set(ctx, plan)
            /\ ok
            /\ tfRole' = [present |-> TRUE, perms |-> plan]
            /\ pc' = "returned"
            /\ UNCHANGED <<roleStore, idx, calls, diag>>
       ELSE LET perm == plan[idx]
                permType == CreatePermType(perm) IN
            IF permType = "skip"
            THEN /\ ok
                 /\ idx' = idx + 1
                 /\ UNCHANGED <<roleStore, tfRole, pc, calls, diag>>
            ELSE /\ ok \in RoleKVOutcomes
                 /\ calls' = Append(calls, Call("Grant", <<perm.path>>, permType, Res(ok)))
                 /\ IF ok
                    THEN /\ roleStore' = StoreGrant(roleStore, perm.path, permType)
                         /\ idx' = idx + 1
                         /\ UNCHANGED <<pc, diag>>
                    ELSE /\ diag' = Diag("Error granting permission to role", perm.path)
                         /\ pc' = "returned"
                         /\ UNCHANGED <<roleStore, idx>>
                 /\ UNCHANGED tfRole
    /\ UNCHANGED <<op, plan, state, entryStore>>

\* ------------------------------------------------------------------------
\* roleResource.Read
\* ------------------------------------------------------------------------
\* GetRole fails when the role is missing; it may also fail in transport.
GetRoleOutcomes == IF roleStore.exists THEN {"ok", "error"} ELSE {"notfound", "error"}

RoleRead(res) ==
    /\ UNCHANGED userVars
    /\ cancelled' = FALSE
    /\ op = "idle"
    /\ tfRole.present
    /\ res \in GetRoleOutcomes
    /\ op' = "read"
    /\ pc' = "returned"
    /\ idx' = 0
    /\ plan' = <<>>
    /\ state' = tfRole.perms
    /\ calls' = <<Call("GetRole", <<>>, "", res)>>
    /\ entryStore' = roleStore
    /\ IF res = "ok"
       THEN /\ tfRole' = [tfRole EXCEPT !.perms = Decode(roleStore.read, roleStore.write)]
            /\ diag' = NoDiag
       ELSE /\ tfRole' = tfRole
            /\ diag' = Diag("Error reading role", "")
    /\ UNCHANGED roleStore

\* ------------------------------------------------------------------------
\* roleResource.Update
\* ------------------------------------------------------------------------
\* variant: the revoke loop is missing
RoleUpdateBegin_GrantOnly(p) ==
    /\ UNCHANGED userVars
    /\ cancelled' = FALSE
    /\ op = "idle"
    /\ tfRole.present
    /\ op' = "update"
    /\ pc' = "grant"
    /\ idx' = 1
    /\ plan' = p
    /\ state' = tfRole.perms
    /\ calls' = <<>>
    /\ diag' = NoDiag
    /\ entryStore' = roleStore
    /\ UNCHANGED <<roleStore, tfRole>>

RoleUpdateBegin(p) ==
    /\ UNCHANGED userVars
    /\ cancelled' = FALSE
    /\ op = "idle"
    /\ tfRole.present
    /\ op' = "update"
    /\ pc' = "revoke"
    /\ idx' = 1
    /\ plan' = p
    /\ state' = tfRole.perms
    /\ calls' = <<>>
    /\ diag' = NoDiag
    /\ entryStore' = roleStore
    /\ UNCHANGED <<roleStore, tfRole>>

\* variant: a prior entry that the plan repeats unchanged is not revoked
RoleUpdateRevoke_OnlyChanged(ok) ==
    /\ UNCHANGED userVars
    /\ UNCHANGED cancelled
    /\ op = "update"
    /\ pc = "revoke"
    /\ IF idx > Len(state)
       THEN /\ ok
            /\ pc' = "grant"
            /\ idx' = 1
            /\ UNCHANGED <<roleStore, calls, diag>>
       ELSE LET perm == state[idx]
                permType == UpdateRevokePermType(perm) IN
            IF permType = "skip" \/ Contains(plan, perm)
            THEN /\ ok
                 /\ idx' = idx + 1
                 /\ UNCHANGED <<roleStore, pc, calls, diag>>
            ELSE /\ ok \in RoleKVOutcomes
                 /\ calls' = Append(calls, Call("Revoke", <<perm.path>>, permType, Res(ok)))
                 /\ IF ok
                    THEN /\ roleStore' = StoreRevoke(roleStore, perm.path, permType)
                         /\ idx' = idx + 1
                         /\ UNCHANGED <<pc, diag>>
                    ELSE /\ diag' = Diag("Error revoking permission from role", perm.path)
                         /\ pc' = "returned"
                         /\ UNCHANGED <<roleStore, idx>>
    /\ UNCHANGED <<tfRole, op, plan, state, entryStore>>

RoleUpdateRevoke(ok) ==
    /\ UNCHANGED userVars
    /\ UNCHANGED cancelled
    /\ op = "update"
    /\ pc = "revoke"
    /\ IF idx > Len(state)
       THEN /\ ok
            /\ pc' = "grant"
            /\ idx' = 1
            /\ UNCHANGED <<roleStore, calls, diag>>
       ELSE LET perm == state[idx]
                permType == UpdateRevokePermType(perm) IN
            IF permType = "skip"
            THEN /\ ok
                 /\ idx' = idx + 1
                 /\ UNCHANGED <<roleStore, pc, calls, diag>>
            ELSE /\ ok \in RoleKVOutcomes
                 /\ calls' = Append(calls, Call("Revoke", <<perm.path>>, permType, Res(ok)))
                 /\ IF ok
                    THEN /\ roleStore' = StoreRevoke(roleStore, perm.path, permType)
                         /\ idx' = idx + 1
                         /\ UNCHANGED <<pc, diag>>
                    ELSE /\ diag' = Diag("Error revoking permission from role", perm.path)
                         /\ pc' = "returned"
                         /\ UNCHANGED <<roleStore, idx>>
    /\ UNCHANGED <<tfRole, op, plan, state, entryStore>>

\* variant: the `return` after a failed grant is missing
RoleUpdateGrant_NoReturn(ok) ==
    /\ UNCHANGED userVars
    /\ UNCHANGED cancelled
    /\ op = "update"
    /\ pc = "grant"
    /\ IF idx > Len(plan)
       THEN /\ ok
            /\ tfRole' = [present |-> TRUE, perms |-> plan]
            /\ pc' = "returned"
            /\ UNCHANGED <<roleStore, idx, calls, diag>>
       ELSE LET perm == plan[idx]
                permType == UpdateGrantPermType(perm) IN
            IF permType = "skip"
            THEN /\ ok
                 /\ idx' = idx + 1
                 /\ UNCHANGED <<roleStore, tfRole, pc, calls, diag>>
            ELSE /\ ok \in RoleKVOutcomes
                 /\ calls' = Append(calls, Call("Grant", <<perm.path>>, permType, Res(ok)))
                 /\ idx' = idx + 1
                 /\ IF ok
                    THEN /\ roleStore' = StoreGrant(roleStore, perm.path, permType)
                         /\ UNCHANGED <<pc, diag>>
                    ELSE /\ diag' = Diag("Error granting permission to role", perm.path)
                         /\ UNCHANGED <<roleStore, pc>>
                 /\ UNCHANGED tfRole
    /\ UNCHANGED <<op, plan, state, entryStore>>

\* variant: a read-and-write entry is granted by a read grant and a write grant
RoleUpdateGrant_SplitReadWrite(ok) ==
    /\ UNCHANGED userVars
    /\ UNCHANGED cancelled
    /\ op = "update"
    /\ pc = "grant"
    /\ IF idx > Len(plan)
       THEN /\ ok
            /\ tfRole' = [present |-> TRUE, perms |-> plan]
            /\ pc' = "returned"
            /\ UNCHANGED <<roleStore, idx, calls, diag>>
       ELSE LET perm == plan[idx]
                permType == UpdateGrantPermType(perm) IN
            IF permType = "skip"
            THEN /\ ok
                 /\ idx' = idx + 1
                 /\ UNCHANGED <<roleStore, tfRole, pc, calls, diag>>
            ELSE /\ ok \in RoleKVOutcomes
                 /\ calls' = IF permType = "readwrite"
                              THEN calls \o <<Call("Grant", <<perm.path>>, "read", "ok"),
                                              Call("Grant", <<perm.path>>, "write", Res(ok))>>
                              ELSE Append(calls, Call("Grant", <<perm.path>>, permType, Res(ok)))
                 /\ IF ok
                    THEN /\ roleStore' = StoreGrant(roleStore, perm.path, permType)
                         /\ idx' = idx + 1
                         /\ UNCHANGED <<pc, diag>>
                    ELSE /\ diag' = Diag("Error granting permission to role", perm.path)
                         /\ pc' = "returned"
                         /\ UNCHANGED <<roleStore, idx>>
                 /\ UNCHANGED tfRole
    /\ UNCHANGED <<op, plan, state, entryStore>>

RoleUpdateGrant(ok) ==
    /\ UNCHANGED userVars
    /\ UNCHANGED cancelled
    /\ op = "update"
    /\ pc = "grant"
    /\ IF idx > Len(plan)
       THEN \* resp.State.Set(ctx, plan)
            /\ ok
            /\ tfRole' = [present |-> TRUE, perms |-> plan]
            /\ pc' = "returned"
            /\ UNCHANGED <<roleStore, idx, calls, diag>>
       ELSE LET perm == plan[idx]
                permType == UpdateGrantPermType(perm) IN
            IF permType = "skip"
            THEN /\ ok
                 /\ idx' = idx + 1
                 /\ UNCHANGED <<roleStore, tfRole, pc, calls, diag>>
            ELSE /\ ok \in RoleKVOutcomes
                 /\ calls' = Append(calls, Call("Grant", <<perm.path>>, permType, Res(ok)))
                 /\ IF ok
                    THEN /\ roleStore' = StoreGrant(roleStore, perm.path, permType)
                         /\ idx' = idx + 1
                         /\ UNCHANGED <<pc, diag>>
                    ELSE /\ diag' = Diag("Error granting permission to role", perm.path)
                         /\ pc' = "returned"
                         /\ UNCHANGED <<roleStore, idx>>
                 /\ UNCHANGED tfRole
    /\ UNCHANGED <<op, plan, state, entryStore>>

\* ------------------------------------------------------------------------
\* roleResource.Delete
\* ------------------------------------------------------------------------
\* variant: the role is looked up before it is removed
RoleDelete_GetFirst(ok) ==
    /\ UNCHANGED userVars
    /\ cancelled' = FALSE
    /\ op = "idle"
    /\ tfRole.present
    /\ ok \in (IF roleStore.exists THEN BOOLEAN ELSE {FALSE})
    /\ op' = "delete"
    /\ pc' = "returned"
    /\ idx' = 0
    /\ plan' = <<>>
    /\ state' = tfRole.perms
    /\ calls' = <<Call("GetRole", <<>>, "", Res(roleStore.exists)),
                  Call("RemoveRole", <<>>, "", Res(ok))>>
    /\ entryStore' = roleStore
    /\ IF ok
       THEN /\ roleStore' = NoRole
            /\ tfRole' = NoState
            /\ diag' = NoDiag
       ELSE /\ roleStore' = roleStore
            /\ tfRole' = tfRole
            /\ diag' = Diag("Error deleting role", "")

RoleDelete(ok) ==
    /\ UNCHANGED userVars
    /\ cancelled' = FALSE
    /\ op = "idle"
    /\ tfRole.present
    /\ ok \in (IF roleStore.exists THEN BOOLEAN ELSE {FALSE})
    /\ op' = "delete"
    /\ pc' = "returned"
    /\ idx' = 0
    /\ plan' = <<>>
    /\ state' = tfRole.perms
    /\ calls' = <<Call("RemoveRole", <<>>, "", Res(ok))>>
    /\ entryStore' = roleStore
    /\ IF ok
       THEN /\ roleStore' = NoRole
            /\ tfRole' = NoState
            /\ diag' = NoDiag
       ELSE /\ roleStore' = roleStore
            /\ tfRole' = tfRole
            /\ diag' = Diag("Error deleting role", "")

\* The handler has returned; the host is free to invoke the next one.
RoleReturn ==
    /\ UNCHANGED userVars
    /\ cancelled' = FALSE
    /\ op \in {"create", "read", "update", "delete"}
    /\ pc = "returned"
    /\ op' = "idle"
    /\ pc' = "idle"
    /\ idx' = 0
    /\ plan' = <<>>
    /\ state' = <<>>
    /\ calls' = <<>>
    /\ diag' = NoDiag
    /\ entryStore' = NoRole
    /\ UNCHANGED <<roleStore, tfRole>>

\* The role is removed from the store by another client of the store.
RoleRemovedElsewhere ==
    /\ UNCHANGED userVars
    /\ UNCHANGED cancelled
    /\ op = "idle"
    /\ roleStore.exists
    /\ roleStore' = NoRole
    /\ UNCHANGED <<tfRole, op, pc, idx, plan, state, calls, diag, entryStore>>

\* The host cancels the context it handed to the running Create or Update.
\* The handlers pass ctx on to every client call and never test it.
CtxCancel ==
    /\ op \in {"create", "update"}
    /\ pc # "returned"
    /\ ~cancelled
    /\ cancelled' = TRUE
    /\ UNCHANGED <<roleStore, tfRole, op, pc, idx, plan, state, calls, diag, entryStore>>
    /\ UNCHANGED userVars

Next ==
    \/ \E p \in PermLists, ok \in BOOLEAN : RoleCreateAddRole(p, ok)
    \/ \E ok \in BOOLEAN : RoleCreateGrant(ok)
    \/ \E res \in {"ok", "notfound", "error"} : RoleRead(res)
    \/ \E p \in PermLists : RoleUpdateBegin(p)
    \/ \E ok \in BOOLEAN : RoleUpdateRevoke(ok)
    \/ \E ok \in BOOLEAN : RoleUpdateGrant(ok)
    \/ \E ok \in BOOLEAN : RoleDelete(ok)
    \/ RoleReturn
    \/ RoleRemovedElsewhere
    \/ CtxCancel

Spec == Init /\ [][Next]_vars

\* ------------------------------------------------------------------------
\* The user resource
\* ------------------------------------------------------------------------
Username == "u1"

Passwords == {"pw1", "pw2"}

RoleNames == {"", "r1", "r2"}

MaxRoles == 2

RoleLists == UNION {[1..n -> RoleNames] : n \in 0..MaxRoles}

UserPlans ==
    [present : {TRUE}, username : {Username}, password : Passwords, roles : RoleLists]

UserCall(kind, roles, password, res) ==
    [kind |-> kind, roles |-> roles, password |-> password, res |-> res]

\* the loop that keeps the non-empty role names, in order
RECURSIVE NonEmptyRoles(_)
NonEmptyRoles(roles) ==
    IF roles = <<>> THEN <<>>
    ELSE (IF Head(roles) # "" THEN <<Head(roles)>> ELSE <<>>)
         \o NonEmptyRoles(Tail(roles))

RECURSIVE AddAll(_, _)
AddAll(s, xs) == IF xs = <<>> THEN s ELSE AddAll(AddPath(s, Head(xs)), Tail(xs))

RECURSIVE RemoveAll(_, _)
RemoveAll(s, xs) == IF xs = <<>> THEN s ELSE RemoveAll(Without(s, Head(xs)), Tail(xs))

\* Effect of a successful GrantUser(username, roles) on the store.
StoreGrantUser(st, roles) == [st EXCEPT !.roles = AddAll(@, roles)]

\* Effect of a successful RevokeUser(username, roles) on the store.
StoreRevokeUser(st, roles) == [st EXCEPT !.roles = RemoveAll(@, roles)]

\* AddUser succeeds only when the store has no user of that name.
AddUserOutcomes == IF userStore.exists THEN {FALSE} ELSE BOOLEAN

\* Calls on a user the store does not hold fail; any call may fail.
UserOutcomes == IF userStore.exists THEN BOOLEAN ELSE {FALSE}

GetUserOutcomes == IF userStore.exists THEN {"ok", "error"} ELSE {"notfound", "error"}

\* userResource.Create, up to and including AddUser
UserCreateAddUser(p, ok) ==
    /\ op = "idle"
    /\ ~tfUser.present
    /\ ok \in AddUserOutcomes
    /\ op' = "userCreate"
    /\ uplan' = p
    /\ ustate' = NoUserState
    /\ calls' = <<UserCall("AddUser", <<>>, p.password, Res(ok))>>
    /\ IF ok
       THEN /\ userStore' = [exists |-> TRUE, password |-> p.password, roles |-> <<>>]
            /\ pc' = "grant"
            /\ diag' = NoDiag
       ELSE /\ userStore' = userStore
            /\ pc' = "returned"
            /\ diag' = Diag("Error creating user", "")
    /\ UNCHANGED tfUser
    /\ UNCHANGED roleVars

\* userResource.Create, from the role grant to resp.State.Set
UserCreateGrant(ok) ==
    /\ op = "userCreate"
    /\ pc = "grant"
    /\ LET roles == NonEmptyRoles(uplan.roles) IN
       IF Len(uplan.roles) > 0 /\ Len(roles) > 0
       THEN /\ ok \in UserOutcomes
            /\ calls' = Append(calls, UserCall("GrantUser", roles, "", Res(ok)))
            /\ IF ok
               THEN /\ userStore' = StoreGrantUser(userStore, roles)
                    /\ tfUser' = uplan
                    /\ diag' = diag
               ELSE /\ diag' = Diag("Error granting roles to user", "")
                    /\ UNCHANGED <<userStore, tfUser>>
       ELSE /\ ok
            /\ tfUser' = uplan
            /\ UNCHANGED <<userStore, calls, diag>>
    /\ pc' = "returned"
    /\ UNCHANGED <<op, uplan, ustate>>
    /\ UNCHANGED roleVars

\* variant: the password is overwritten with the absent value GetUser returns
UserRead_DropPassword(res) ==
    /\ op = "idle"
    /\ tfUser.present
    /\ res \in GetUserOutcomes
    /\ op' = "userRead"
    /\ pc' = "returned"
    /\ uplan' = NoUserState
    /\ ustate' = tfUser
    /\ calls' = <<UserCall("GetUser", <<>>, "", res)>>
    /\ IF res = "ok"
       THEN /\ tfUser' = [tfUser EXCEPT !.roles = userStore.roles, !.password = ""]
            /\ diag' = NoDiag
       ELSE /\ tfUser' = tfUser
            /\ diag' = Diag("Error reading user", "")
    /\ UNCHANGED userStore
    /\ UNCHANGED roleVars

\* userResource.Read
UserRead(res) ==
    /\ op = "idle"
    /\ tfUser.present
    /\ res \in GetUserOutcomes
    /\ op' = "userRead"
    /\ pc' = "returned"
    /\ uplan' = NoUserState
    /\ ustate' = tfUser
    /\ calls' = <<UserCall("GetUser", <<>>, "", res)>>
    /\ IF res = "ok"
       THEN /\ tfUser' = [tfUser EXCEPT !.roles = userStore.roles]
            /\ diag' = NoDiag
       ELSE /\ tfUser' = tfUser
            /\ diag' = Diag("Error reading user", "")
    /\ UNCHANGED userStore
    /\ UNCHANGED roleVars

\* userResource.Update, up to and including the password change
\* variant: ChangePassword is called whether or not the password differs
UserUpdatePassword_Always(p, ok) ==
    /\ op = "idle"
    /\ tfUser.present
    /\ op' = "userUpdate"
    /\ uplan' = p
    /\ ustate' = tfUser
    /\ ok \in UserOutcomes
    /\ calls' = <<UserCall("ChangePassword", <<>>, p.password, Res(ok))>>
    /\ IF ok
       THEN /\ userStore' = [userStore EXCEPT !.password = p.password]
            /\ pc' = "revoke"
            /\ diag' = NoDiag
       ELSE /\ userStore' = userStore
            /\ pc' = "returned"
            /\ diag' = Diag("Error updating user password", "")
    /\ UNCHANGED tfUser
    /\ UNCHANGED roleVars

UserUpdatePassword(p, ok) ==
    /\ op = "idle"
    /\ tfUser.present
    /\ op' = "userUpdate"
    /\ uplan' = p
    /\ ustate' = tfUser
    /\ IF p.password # tfUser.password
       THEN /\ ok \in UserOutcomes
            /\ calls' = <<UserCall("ChangePassword", <<>>, p.password, Res(ok))>>
            /\ IF ok
               THEN /\ userStore' = [userStore EXCEPT !.password = p.password]
                    /\ pc' = "revoke"
                    /\ diag' = NoDiag
               ELSE /\ userStore' = userStore
                    /\ pc' = "returned"
                    /\ diag' = Diag("Error updating user password", "")
       ELSE /\ ok
            /\ calls' = <<>>
            /\ pc' = "revoke"
            /\ diag' = NoDiag
            /\ userStore' = userStore
    /\ UNCHANGED tfUser
    /\ UNCHANGED roleVars

\* userResource.Update, the revoke of the prior roles
UserUpdateRevoke(ok) ==
    /\ op = "userUpdate"
    /\ pc = "revoke"
    /\ LET roles == NonEmptyRoles(ustate.roles) IN
       IF Len(ustate.roles) > 0 /\ Len(roles) > 0
       THEN /\ ok \in UserOutcomes
            /\ calls' = Append(calls, UserCall("RevokeUser", roles, "", Res(ok)))
            /\ IF ok
               THEN /\ userStore' = StoreRevokeUser(userStore, roles)
                    /\ pc' = "grant"
                    /\ diag' = diag
               ELSE /\ userStore' = userStore
                    /\ pc' = "returned"
                    /\ diag' = Diag("Error revoking user roles", "")
       ELSE /\ ok
            /\ pc' = "grant"
            /\ UNCHANGED <<userStore, calls, diag>>
    /\ UNCHANGED <<op, tfUser, uplan, ustate>>
    /\ UNCHANGED roleVars

\* userResource.Update, from the grant of the planned roles to resp.State.Set
\* variant: the planned user is recorded whether or not GrantUser failed
UserUpdateGrant_SetOnError(ok) ==
    /\ op = "userUpdate"
    /\ pc = "grant"
    /\ LET roles == NonEmptyRoles(uplan.roles) IN
       IF Len(uplan.roles) > 0 /\ Len(roles) > 0
       THEN /\ ok \in UserOutcomes
            /\ calls' = Append(calls, UserCall("GrantUser", roles, "", Res(ok)))
            /\ tfUser' = uplan
            /\ IF ok
               THEN /\ userStore' = StoreGrantUser(userStore, roles)
                    /\ diag' = diag
               ELSE /\ diag' = Diag("Error granting user roles", "")
                    /\ UNCHANGED userStore
       ELSE /\ ok
            /\ tfUser' = uplan
            /\ UNCHANGED <<userStore, calls, diag>>
    /\ pc' = "returned"
    /\ UNCHANGED <<op, uplan, ustate>>
    /\ UNCHANGED roleVars

UserUpdateGrant(ok) ==
    /\ op = "userUpdate"
    /\ pc = "grant"
    /\ LET roles == NonEmptyRoles(uplan.roles) IN
       IF Len(uplan.roles) > 0 /\ Len(roles) > 0
       THEN /\ ok \in UserOutcomes
            /\ calls' = Append(calls, UserCall("GrantUser", roles, "", Res(ok)))
            /\ IF ok
               THEN /\ userStore' = StoreGrantUser(userStore, roles)
                    /\ tfUser' = uplan
                    /\ diag' = diag
               ELSE /\ diag' = Diag("Error granting user roles", "")
                    /\ UNCHANGED <<userStore, tfUser>>
       ELSE /\ ok
            /\ tfUser' = uplan
            /\ UNCHANGED <<userStore, calls, diag>>
    /\ pc' = "returned"
    /\ UNCHANGED <<op, uplan, ustate>>
    /\ UNCHANGED roleVars

\* userResource.Delete
UserDelete(ok) ==
    /\ op = "idle"
    /\ tfUser.present
    /\ ok \in UserOutcomes
    /\ op' = "userDelete"
    /\ pc' = "returned"
    /\ uplan' = NoUserState
    /\ ustate' = tfUser
    /\ calls' = <<UserCall("RemoveUser", <<>>, "", Res(ok))>>
    /\ IF ok
       THEN /\ userStore' = NoUser
            /\ tfUser' = NoUserState
            /\ diag' = NoDiag
       ELSE /\ userStore' = userStore
            /\ tfUser' = tfUser
            /\ diag' = Diag("Error deleting user", "")
    /\ UNCHANGED roleVars

\* The handler has returned; the host is free to invoke the next one.
UserReturn ==
    /\ op \in {"userCreate", "userRead", "userUpdate", "userDelete"}
    /\ pc = "returned"
    /\ op' = "idle"
    /\ pc' = "idle"
    /\ uplan' = NoUserState
    /\ ustate' = NoUserState
    /\ calls' = <<>>
    /\ diag' = NoDiag
    /\ UNCHANGED <<userStore, tfUser>>
    /\ UNCHANGED roleVars

\* The user is removed from the store by another client of the store.
UserRemovedElsewhere ==
    /\ op = "idle"
    /\ userStore.exists
    /\ userStore' = NoUser
    /\ UNCHANGED <<tfUser, uplan, ustate, op, pc, calls, diag>>
    /\ UNCHANGED roleVars

NextUser ==
    \/ \E p \in UserPlans, ok \in BOOLEAN : UserCreateAddUser(p, ok)
    \/ \E ok \in BOOLEAN : UserCreateGrant(ok)
    \/ \E res \in {"ok", "notfound", "error"} : UserRead(res)
    \/ \E p \in UserPlans, ok \in BOOLEAN : UserUpdatePassword(p, ok)
    \/ \E ok \in BOOLEAN : UserUpdateRevoke(ok)
    \/ \E ok \in BOOLEAN : UserUpdateGrant(ok)
    \/ \E ok \in BOOLEAN : UserDelete(ok)
    \/ UserReturn
    \/ UserRemovedElsewhere

SpecUser == Init /\ [][NextUser]_vars

\* ------------------------------------------------------------------------
\* The provider serves both resources.  The role handlers and the user
\* handlers share no state, so the provider is explored as the behaviours of
\* the role resource while no user is configured together with the
\* behaviours of the user resource while no role is configured.
\* ------------------------------------------------------------------------
NextProvider ==
    \/ (userStore = NoUser /\ tfUser = NoUserState /\ Next)
    \/ (roleStore = NoRole /\ tfRole = NoState /\ NextUser)

SpecProvider == Init /\ [][NextProvider]_vars

\* ------------------------------------------------------------------------
\* Vocabulary of the properties
\* ------------------------------------------------------------------------
NoOp(perm) == ~perm.read /\ ~perm.write

\* the classification rule as the design states it
ClassOf(perm) ==
    CASE perm.read /\ perm.write -> "readwrite"
      [] perm.read /\ ~perm.write -> "read"
      [] ~perm.read /\ perm.write -> "write"
      [] OTHER -> "skip"

Entry(p, r, w) == [path |-> p, read |-> r, write |-> w]

Sig(c) == <<c.kind, c.paths, c.permType>>

Sigs(cs) == [i \in 1..Len(cs) |-> Sig(cs[i])]

IsRevoke(sg) == sg[1] = "Revoke"

\* one call of the given kind per entry that is not a no-op, in list order
RECURSIVE ExpectedCalls(_, _)
ExpectedCalls(kind, perms) ==
    IF perms = <<>> THEN <<>>
    ELSE (IF NoOp(Head(perms)) THEN <<>>
          ELSE << <<kind, <<Head(perms).path>>, ClassOf(Head(perms))>> >>)
         \o ExpectedCalls(kind, Tail(perms))

Done(o) == op = o /\ pc = "returned"

Succeeded(o) == Done(o) /\ ~diag.err

ReadGranted(perms) == {perms[i].path : i \in {j \in 1..Len(perms) : perms[j].read}}

WriteGranted(perms) == {perms[i].path : i \in {j \in 1..Len(perms) : perms[j].write}}

\* the store holds exactly the grants of perms
StoreHolds(st, perms) ==
    /\ Range(st.read) = ReadGranted(perms)
    /\ Range(st.write) = WriteGranted(perms)

\* the role a fresh role becomes when Create grants every entry of perms
RECURSIVE EncodeFrom(_, _)
EncodeFrom(st, perms) ==
    IF perms = <<>> THEN st
    ELSE LET permType == CreatePermType(Head(perms)) IN
         EncodeFrom(IF permType = "skip" THEN st
                    ELSE StoreGrant(st, Head(perms).path, permType),
                    Tail(perms))

Encode(perms) == EncodeFrom(FreshRole, perms)

NoOpCount(perms) == Cardinality({i \in 1..Len(perms) : NoOp(perms[i])})

\* ------------------------------------------------------------------------
\* C1 (as stated): a Read of the role that a Create of S left in the store
\* rebuilds S as a path-keyed set, for every S with pairwise distinct paths
\* of which at most one entry is a no-op.
\* ------------------------------------------------------------------------
C1_RoundTripAsStated ==
    (Succeeded("read") /\ entryStore = Encode(state)
       /\ DistinctPaths(state) /\ NoOpCount(state) <= 1)
    => Range(tfRole.perms) = Range(state)

\* C1 (amended): a successful Create of plan S leaves the store holding
\* Encode(S), and a Read of a store holding Encode(S) rebuilds S as a
\* path-keyed set, for every S with pairwise distinct paths and no no-op entry.
C1_RoundTrip ==
    /\ Succeeded("create") => roleStore = Encode(plan)
    /\ (Succeeded("read") /\ entryStore = Encode(state)
          /\ DistinctPaths(state) /\ NoOpCount(state) = 0)
       => Range(tfRole.perms) = Range(state)

C1_Witness ==
    /\ Succeeded("read")
    /\ entryStore = Encode(state)
    /\ Len(state) = 2
    /\ NoOpCount(state) = 0
    /\ \E i \in 1..Len(state) : state[i].read /\ state[i].write
    /\ \E i \in 1..Len(state) : ~state[i].read /\ state[i].write

\* ------------------------------------------------------------------------
\* C2: role Read yields exactly one entry for every distinct path of the
\* store's read list or write list, flagged read iff the path is in the read
\* list and write iff it is in the write list, and no entry for any other
\* path; two empty lists give the empty list.
\* ------------------------------------------------------------------------
C2_DecodeMerge ==
    Succeeded("read") =>
      LET out == tfRole.perms IN
      \A p \in Paths :
        LET at == {i \in 1..Len(out) : out[i].path = p}
            inRead == Contains(roleStore.read, p)
            inWrite == Contains(roleStore.write, p) IN
        IF inRead \/ inWrite
        THEN /\ Cardinality(at) = 1
             /\ \A i \in at : out[i].read = inRead /\ out[i].write = inWrite
        ELSE at = {}

C2_Witness ==
    /\ Succeeded("read")
    /\ \E p \in Paths : Contains(roleStore.read, p) /\ Contains(roleStore.write, p)
    /\ \E p \in Paths : ~Contains(roleStore.read, p) /\ Contains(roleStore.write, p)
    /\ Len(tfRole.perms) = 2

\* ------------------------------------------------------------------------
\* C3: in a role Update no Revoke is issued after a Grant; from prior
\* {(p, ReadOnly)} to desired {(p, WriteOnly)} the calls are a prefix of
\* [Revoke(p, ReadOnly), Grant(p, WriteOnly)] and exactly that list when
\* the Update succeeds; likewise [Revoke(p, ReadOnly), Grant(p, ReadWrite)]
\* for desired {(p, ReadWrite)}.
\* ------------------------------------------------------------------------
C3_Ordering ==
    op = "update" =>
      /\ \A i, j \in 1..Len(calls) :
           (i < j /\ calls[i].kind = "Grant") => calls[j].kind # "Revoke"
      /\ \A p \in Paths :
           /\ (state = <<Entry(p, TRUE, FALSE)>> /\ plan = <<Entry(p, FALSE, TRUE)>>) =>
                LET want == << <<"Revoke", <<p>>, "read">>, <<"Grant", <<p>>, "write">> >> IN
                /\ IsPrefix(Sigs(calls), want)
                /\ Succeeded("update") => Sigs(calls) = want
           /\ (state = <<Entry(p, TRUE, FALSE)>> /\ plan = <<Entry(p, TRUE, TRUE)>>) =>
                LET want == << <<"Revoke", <<p>>, "read">>, <<"Grant", <<p>>, "readwrite">> >> IN
                /\ IsPrefix(Sigs(calls), want)
                /\ Succeeded("update") => Sigs(calls) = want

C3_Witness ==
    /\ Succeeded("update")
    /\ state = <<Entry("/x", TRUE, FALSE)>>
    /\ plan = <<Entry("/x", FALSE, TRUE)>>
    /\ Len(calls) = 2

\* ------------------------------------------------------------------------
\* C4: in role Create and Update a failed call is the last call of the
\* handler: the handler has returned with an error diagnostic, which for a
\* Grant or Revoke names the path of that call; and an error diagnostic is
\* only ever added for a failed last call.
\* ------------------------------------------------------------------------
C4_PartialFailure ==
    op \in {"create", "update"} =>
      /\ \A i \in 1..Len(calls) :
           calls[i].res # "ok" =>
             /\ i = Len(calls)
             /\ pc = "returned"
             /\ diag.err
             /\ calls[i].kind \in {"Grant", "Revoke"} => calls[i].paths = <<diag.path>>
      /\ diag.err => (calls # <<>> /\ calls[Len(calls)].res # "ok")

C4_Witness ==
    /\ Done("update")
    /\ diag.err
    /\ Len(calls) = 3
    /\ calls[3].kind = "Grant"
    /\ idx < Len(plan)
    /\ ~NoOp(plan[idx + 1])

\* ------------------------------------------------------------------------
\* C5: an Update that succeeds, entered with a prior set equal to the decoding
\* of the store's lists, leaves the store's read list holding exactly the
\* desired paths flagged read and its write list exactly those flagged write.
\* ------------------------------------------------------------------------
C5_Convergence ==
    (Succeeded("update")
       /\ Range(state) = Range(Decode(entryStore.read, entryStore.write)))
    => StoreHolds(roleStore, plan)

C5_Witness ==
    /\ Succeeded("update")
    /\ Range(state) = Range(Decode(entryStore.read, entryStore.write))
    /\ Len(state) = 2
    /\ Len(plan) = 2
    /\ ~StoreHolds(entryStore, plan)
    /\ \E i \in 1..2 : plan[i].read /\ plan[i].write

\* ------------------------------------------------------------------------
\* C6: once the revoke phase of an Update is over, one Revoke has been issued
\* for every prior entry that is not a no-op, whatever the desired set holds;
\* a successful Update has issued exactly those Revokes followed by one Grant
\* per desired entry that is not a no-op, a list that depends on the prior
\* and desired lists only (so prior = desired gives revokes then grants,
\* not zero calls).
\* ------------------------------------------------------------------------
C6_RevokeUnconditional ==
    /\ (op = "update" /\ (pc = "grant" \/ Succeeded("update"))) =>
         SelectSeq(Sigs(calls), IsRevoke) = ExpectedCalls("Revoke", state)
    /\ Succeeded("update") =>
         Sigs(calls) = ExpectedCalls("Revoke", state) \o ExpectedCalls("Grant", plan)

C6_Witness ==
    /\ Succeeded("update")
    /\ state = plan
    /\ Len(calls) = 4

\* ------------------------------------------------------------------------
\* C7, the calls: no Grant of a Create or of an Update carries the path of a
\* desired no-op entry, no Revoke of an Update carries the path of a prior
\* no-op entry.
\* ------------------------------------------------------------------------
NoOpNeverCalled ==
    /\ op \in {"create", "update"} =>
         \A i \in 1..Len(plan) : NoOp(plan[i]) =>
           \A k \in 1..Len(calls) :
             calls[k].kind = "Grant" => calls[k].paths # <<plan[i].path>>
    /\ op = "update" =>
         \A i \in 1..Len(state) : NoOp(state[i]) =>
           \A k \in 1..Len(calls) :
             calls[k].kind = "Revoke" => calls[k].paths # <<state[i].path>>

NoOpPathsAbsent ==
    \A i \in 1..Len(plan) : NoOp(plan[i]) =>
      /\ ~Contains(roleStore.read, plan[i].path)
      /\ ~Contains(roleStore.write, plan[i].path)

\* C7 (as stated): a no-op entry causes no Grant or Revoke, and its path is
\* in neither list of the store after the Create or Update (here: even one
\* in which every call succeeded).
C7_NoOpExclusionAsStated ==
    /\ NoOpNeverCalled
    /\ (Succeeded("create") \/ Succeeded("update")) => NoOpPathsAbsent

\* C7 (amended): a no-op entry causes no Grant or Revoke; the path of a
\* desired no-op entry is in neither list of the store after a Create that
\* succeeded, and after an Update that succeeded and was entered with the
\* store holding exactly the grants of the prior set.
C7_NoOpExclusion ==
    /\ NoOpNeverCalled
    /\ (Succeeded("create") /\ DistinctPaths(plan)) => NoOpPathsAbsent
    /\ (Succeeded("update") /\ DistinctPaths(plan) /\ StoreHolds(entryStore, state))
       => NoOpPathsAbsent

C7_Witness ==
    /\ Succeeded("update")
    /\ StoreHolds(entryStore, state)
    /\ Len(plan) = 2
    /\ NoOp(plan[1])
    /\ ~NoOp(plan[2])
    /\ Contains(entryStore.read, plan[1].path)
    /\ \E i \in 1..Len(state) : NoOp(state[i])

\* ------------------------------------------------------------------------
\* C8: a Create issues no Revoke; its calls are a prefix of AddRole followed
\* by one Grant per desired entry that is not a no-op, in list order, and
\* exactly that list when the Create succeeds; desired
\* [(p, read), (q, read+write)] gives Grant(p, ReadOnly), Grant(q, ReadWrite).
\* ------------------------------------------------------------------------
C8_Creation ==
    op = "create" =>
      LET want == << <<"AddRole", <<>>, "">> >> \o ExpectedCalls("Grant", plan) IN
      /\ \A k \in 1..Len(calls) : calls[k].kind # "Revoke"
      /\ IsPrefix(Sigs(calls), want)
      /\ Succeeded("create") => Sigs(calls) = want
      /\ \A p, q \in Paths :
           (Succeeded("create") /\ plan = <<Entry(p, TRUE, FALSE), Entry(q, TRUE, TRUE)>>) =>
             Sigs(calls) = << <<"AddRole", <<>>, "">>,
                              <<"Grant", <<p>>, "read">>,
                              <<"Grant", <<q>>, "readwrite">> >>

C8_Witness ==
    /\ Succeeded("create")
    /\ plan = <<Entry("/a", TRUE, FALSE), Entry("/x", TRUE, TRUE)>>
    /\ Len(calls) = 3

\* ------------------------------------------------------------------------
\* C9: when a user Read has returned, the local user is the local user held
\* before the Read with, when GetUser succeeded, its roles replaced by the
\* roles the store returned: password and username are those held before.
\* ------------------------------------------------------------------------
C9_PasswordRetained ==
    Done("userRead") =>
      /\ tfUser.password = ustate.password
      /\ tfUser = [ustate EXCEPT !.roles = tfUser.roles]
      /\ ~diag.err => tfUser.roles = userStore.roles
      /\ diag.err => tfUser.roles = ustate.roles

C9_Witness ==
    /\ Succeeded("userRead")
    /\ tfUser.roles # ustate.roles
    /\ tfUser.password = "pw2"
    /\ userStore.password = "pw1"

\* ------------------------------------------------------------------------
\* C10 (as stated): a role Read that finds the role missing from the store
\* reports no failure.
\* ------------------------------------------------------------------------
C10_NotFoundIsNoFailure ==
    (Done("read") /\ calls[1].res = "notfound") => ~diag.err

\* ------------------------------------------------------------------------
\* C11: a role Delete issues exactly one remote call, RemoveRole, whatever
\* permissions the local state holds; a failed RemoveRole is reported, and
\* leaves the store and the local state as they were.
\* ------------------------------------------------------------------------
C11_Deletion ==
    op = "delete" =>
      /\ pc = "returned"
      /\ Len(calls) = 1
      /\ calls[1].kind = "RemoveRole"
      /\ calls[1].paths = <<>>
      /\ diag.err <=> calls[1].res # "ok"
      /\ diag.err => (roleStore = entryStore /\ tfRole = [present |-> TRUE, perms |-> state])
      /\ ~diag.err => (roleStore = NoRole /\ tfRole = NoState)

C11_Witness ==
    /\ Succeeded("delete")
    /\ Len(state) = 2
    /\ NoOpCount(state) = 0
    /\ entryStore.read # <<>>
    /\ entryStore.write # <<>>

\* ------------------------------------------------------------------------
\* C12 (as stated): once the context of a role Create or Update is
\* cancelled, the handler issues no further remote call.
\* ------------------------------------------------------------------------
C12_NoCallAfterCancel ==
    [][(cancelled /\ op \in {"create", "update"}) => Len(calls') <= Len(calls)]_vars

\* ------------------------------------------------------------------------
\* C13 (as stated): a user Read of the user that a Create left in the store
\* (store unchanged since) leaves the local roles equal to the declared
\* sequence.
\* ------------------------------------------------------------------------
StoreAfterUserCreate(u) ==
    StoreGrantUser([exists |-> TRUE, password |-> u.password, roles |-> <<>>],
                   NonEmptyRoles(u.roles))

C13_RolesOrderKept ==
    (Succeeded("userRead") /\ userStore = StoreAfterUserCreate(ustate))
    => tfUser.roles = ustate.roles

\* ------------------------------------------------------------------------
\* C14: in a role Create or Update every Grant and Revoke carries exactly one
\* path; no two calls of one kind carry the same path (one call at most per
\* entry and phase, a failed call included: it is not repeated); a successful
\* Update has issued as many Revokes as the prior list has entries that are
\* not no-ops and as many Grants as the desired list has, a successful Create
\* as many Grants as the desired list has.
\* ------------------------------------------------------------------------
CountKind(kind) == Cardinality({k \in 1..Len(calls) : calls[k].kind = kind})

C14_OneCallPerEntry ==
    op \in {"create", "update"} =>
      /\ \A k \in 1..Len(calls) :
           calls[k].kind \in {"Grant", "Revoke"} => Len(calls[k].paths) = 1
      /\ \A k, l \in 1..Len(calls) :
           (k < l /\ calls[k].kind = calls[l].kind) => calls[k].paths # calls[l].paths
      /\ Succeeded("update") =>
           /\ CountKind("Revoke") = Len(state) - NoOpCount(state)
           /\ CountKind("Grant") = Len(plan) - NoOpCount(plan)
      /\ Succeeded("create") => CountKind("Grant") = Len(plan) - NoOpCount(plan)

C14_Witness ==
    /\ Succeeded("update")
    /\ CountKind("Revoke") = 2
    /\ CountKind("Grant") = 1
    /\ Len(plan) = 2
    /\ \E k \in 1..Len(calls) : calls[k].kind = "Grant" /\ calls[k].permType = "readwrite"

\* ------------------------------------------------------------------------
\* C15: the three classifications (Create grant, Update revoke, Update grant)
\* give, for every entry, the class fixed by its two flags alone (read and
\* write: read-and-write; read only: read; write only: write; neither:
\* excluded), and every Grant of a Create or Update carries the class of the
\* desired entry with its path, every Revoke the class of the prior entry with
\* its path; an excluded entry is never sent.
\* ------------------------------------------------------------------------
SentClassOf(c, perms) ==
    \E i \in 1..Len(perms) :
        /\ perms[i].path = c.paths[1]
        /\ c.permType = ClassOf(perms[i])
        /\ c.permType # "skip"

C15_Classification ==
    /\ \A e \in PermEntry :
         /\ CreatePermType(e) = ClassOf(e)
         /\ UpdateRevokePermType(e) = ClassOf(e)
         /\ UpdateGrantPermType(e) = ClassOf(e)
    /\ op \in {"create", "update"} =>
         \A k \in 1..Len(calls) :
            /\ calls[k].kind = "Grant" => SentClassOf(calls[k], plan)
            /\ calls[k].kind = "Revoke" => SentClassOf(calls[k], state)

C15_Witness ==
    /\ Succeeded("update")
    /\ \E k \in 1..Len(calls) : calls[k].kind = "Revoke" /\ calls[k].permType = "read"
    /\ \E k \in 1..Len(calls) : calls[k].kind = "Revoke" /\ calls[k].permType = "readwrite"
    /\ \E k \in 1..Len(calls) : calls[k].kind = "Grant" /\ calls[k].permType = "write"
    /\ NoOpCount(plan) = 1

\* ------------------------------------------------------------------------
\* C16: the calls of one role follow its lifecycle.  Create issues AddRole
\* first, nothing but Grants after it, and no Grant when AddRole failed; Read
\* issues GetRole only; Update issues Revokes and Grants only; Delete issues
\* RemoveRole only.  A role becomes recorded only by a Create whose AddRole
\* succeeded, and Read, Update and Delete start on a recorded role only, so no
\* Grant or Revoke is issued before the role's AddRole succeeded.
\* ------------------------------------------------------------------------
C16_CallsOfOp ==
    /\ op = "create" =>
         /\ Len(calls) >= 1
         /\ calls[1].kind = "AddRole"
         /\ \A k \in 2..Len(calls) : calls[k].kind = "Grant"
         /\ calls[1].res # "ok" => (Len(calls) = 1 /\ pc = "returned" /\ diag.err)
    /\ op = "read" => (Len(calls) = 1 /\ calls[1].kind = "GetRole")
    /\ op = "update" =>
         /\ \A k \in 1..Len(calls) : calls[k].kind \in {"Revoke", "Grant"}
         /\ tfRole.present
    /\ op = "delete" => (Len(calls) = 1 /\ calls[1].kind = "RemoveRole")

C16_Step ==
    /\ (~tfRole.present /\ tfRole'.present) =>
         (op' = "create" /\ calls'[1].kind = "AddRole" /\ calls'[1].res = "ok" /\ ~diag'.err)
    /\ (tfRole.present /\ ~tfRole'.present) => op' \in {"read", "delete"}
    /\ (op = "idle" /\ op' \in {"read", "update", "delete"}) => tfRole.present
    /\ (op = "idle" /\ op' = "create") => ~tfRole.present

C16_Lifecycle == [][C16_Step]_vars /\ []C16_CallsOfOp

C16_Witness ==
    /\ Done("create")
    /\ calls[1].res # "ok"
    /\ Len(plan) = 2
    /\ NoOpCount(plan) = 0
    /\ Len(calls) = 1

\* ------------------------------------------------------------------------
\* C17: the calls of a user Update are, in this order, ChangePassword with
\* the planned password (only when it differs from the prior one), one
\* RevokeUser with all non-empty prior role names (only when there is one),
\* one GrantUser with all non-empty planned role names (only when there is
\* one).  The calls issued so far are a prefix of that sequence, every call
\* but the last succeeded, a failed last call ends the Update with an error,
\* and an Update without error has issued the whole sequence.
\* ------------------------------------------------------------------------
IsNamed(r) == r # ""

UserSig(c) == <<c.kind, c.roles, c.password>>

UserSigs(cs) == [i \in 1..Len(cs) |-> UserSig(cs[i])]

ExpectedUserUpdateCalls(prior, planned) ==
    (IF planned.password # prior.password
     THEN << <<"ChangePassword", <<>>, planned.password>> >> ELSE <<>>)
    \o (IF SelectSeq(prior.roles, IsNamed) # <<>>
        THEN << <<"RevokeUser", SelectSeq(prior.roles, IsNamed), "">> >> ELSE <<>>)
    \o (IF SelectSeq(planned.roles, IsNamed) # <<>>
        THEN << <<"GrantUser", SelectSeq(planned.roles, IsNamed), "">> >> ELSE <<>>)

C17_UserUpdateOrder ==
    op = "userUpdate" =>
      /\ IsPrefix(UserSigs(calls), ExpectedUserUpdateCalls(ustate, uplan))
      /\ \A k \in 1..(Len(calls) - 1) : calls[k].res = "ok"
      /\ (Len(calls) > 0 /\ calls[Len(calls)].res # "ok") => (pc = "returned" /\ diag.err)
      /\ diag.err => (Len(calls) > 0 /\ calls[Len(calls)].res # "ok")
      /\ Succeeded("userUpdate") => UserSigs(calls) = ExpectedUserUpdateCalls(ustate, uplan)

C17_Witness ==
    /\ Succeeded("userUpdate")
    /\ Len(calls) = 3
    /\ \E i \in 1..Len(ustate.roles) : ustate.roles[i] = ""
    /\ \E i \in 1..Len(uplan.roles) : uplan.roles[i] = ""

\* ------------------------------------------------------------------------
\* C18: a role or user Create or Update writes the local state only at its
\* successful end.  While it runs, and after it ended with an error, the
\* local state is the prior one (none for Create), whatever the calls that
\* succeeded before the failure changed in the store.
\* ------------------------------------------------------------------------
C18_StateKeptOnFailure ==
    /\ (op = "create" /\ (pc # "returned" \/ diag.err)) => tfRole = NoState
    /\ (op = "update" /\ (pc # "returned" \/ diag.err)) =>
         tfRole = [present |-> TRUE, perms |-> state]
    /\ (op = "userCreate" /\ (pc # "returned" \/ diag.err)) => tfUser = NoUserState
    /\ (op = "userUpdate" /\ (pc # "returned" \/ diag.err)) => tfUser = ustate

C18_Witness ==
    /\ Done("update")
    /\ diag.err
    /\ state # plan
    /\ roleStore # entryStore
    /\ \E k \in 1..Len(calls) : calls[k].kind = "Revoke" /\ calls[k].res = "ok"
    /\ \E k \in 1..Len(calls) : calls[k].kind = "Grant" /\ calls[k].res = "ok"

\* ------------------------------------------------------------------------
\* C19 (as stated): a Create or Update without error records the planned
\* list verbatim, and a Read of a store that holds exactly the grants of the
\* recorded list leaves the recorded list unchanged as a path-keyed set.
\* ------------------------------------------------------------------------
C19_RecordedStateAsStated ==
    /\ (Succeeded("create") \/ Succeeded("update")) =>
         tfRole = [present |-> TRUE, perms |-> plan]
    /\ (Succeeded("read") /\ StoreHolds(entryStore, state)) =>
         Range(tfRole.perms) = Range(state)

\* C19 (amended): a Create or Update without error records the planned list
\* verbatim, no-op entries included and in the planned order; the store then
\* holds exactly the grants of the planned list (for Update: when it held
\* exactly the grants of the prior list at entry); and a Read of a store that
\* holds exactly the grants of the recorded list leaves the recorded list
\* unchanged as a path-keyed set when no recorded entry is a no-op.
C19_RecordedState ==
    /\ (Succeeded("create") \/ Succeeded("update")) =>
         tfRole = [present |-> TRUE, perms |-> plan]
    /\ Succeeded("create") => StoreHolds(roleStore, plan)
    /\ (Succeeded("update") /\ StoreHolds(entryStore, state)) => StoreHolds(roleStore, plan)
    /\ (Succeeded("read") /\ StoreHolds(entryStore, state) /\ NoOpCount(state) = 0) =>
         Range(tfRole.perms) = Range(state)

C19_Witness ==
    /\ Succeeded("create")
    /\ Len(plan) = 2
    /\ NoOpCount(plan) = 1
    /\ NoOp(plan[1])
    /\ tfRole.perms = plan
    /\ Decode(roleStore.read, roleStore.write) # plan

\* ------------------------------------------------------------------------
\* C20 (as stated): after a role Create or a user Create ended with an error,
\* the role, or the user, is not in the store or is recorded locally.
\* ------------------------------------------------------------------------
C20_NoOrphanAfterCreate ==
    /\ (Done("create") /\ diag.err) => (~roleStore.exists \/ tfRole.present)
    /\ (Done("userCreate") /\ diag.err) => (~userStore.exists \/ tfUser.present)

====
